---- MODULE Spec2Model ----
(***************************************************************************)
(* Model of the batched Reddit post collector of wk23aau/distress-detector *)
(* (reddit-scrape/content.js and its earlier variants).                    *)
(*                                                                         *)
(* Three variants of the script are modelled:                              *)
(*   "modal"  - reddit-scrape/content.js (modal form, try/catch)           *)
(*   "prompt" - the batched script configured with window.prompt           *)
(*   "simple" - the non-batched collectPosts script                        *)
(*                                                                         *)
(* One step of the model is one synchronous stretch of JavaScript: from    *)
(* the resumption after an await (or an event) up to the next await.       *)
(* Time is in milliseconds and advances in steps of 500.                   *)
(***************************************************************************)
EXTENDS Integers, Sequences, FiniteSets, TLC

\* ---------------------------------------------------------------- bounds
MaxIds == 2
MaxClock == 3000
MaxRuns == 2
MaxRefused == 1

\* ------------------------------------------------------ program constants
SettleMs == 1000
MaxAttempts == 1000

Ids == 1..MaxIds
Runs == 1..MaxRuns
NoId == 0
Variants == {"modal", "prompt", "simple"}
ShadowStates == {"absent", "noShadow", "attached"}

\* --------------------------------------------------------------- texts
\* A text is the sequence of its pieces: a quote, a comma, a space and a
\* line break are pieces of their own, any other piece is a run of ordinary
\* characters.
Quote == "\""
Comma == ","
Space == " "
Newline == "\n"
Whitespace == {Space, Newline}

RECURSIVE TrimStart(_)
TrimStart(t) ==
  IF t # <<>> /\ Head(t) \in Whitespace THEN TrimStart(Tail(t)) ELSE t
RECURSIVE TrimEnd(_)
TrimEnd(t) ==
  IF t # <<>> /\ t[Len(t)] \in Whitespace
  THEN TrimEnd(SubSeq(t, 1, Len(t) - 1)) ELSE t
\* String.prototype.trim
Trim(t) == TrimEnd(TrimStart(t))

RECURSIVE Join(_, _)
\* Array.prototype.join(sep)
Join(texts, sep) ==
  IF texts = <<>> THEN <<>>
  ELSE IF Len(texts) = 1 THEN texts[1]
  ELSE texts[1] \o sep \o Join(Tail(texts), sep)

\* What the page shows inside a post at some moment. Each part is an
\* element that querySelector finds or does not find: the title link, the
\* body container with its paragraphs, the vote and the comment indicator
\* (a `number` attribute, empty when missing, and a text), and the flair.
NoText == [present |-> FALSE, text |-> <<>>]
TextOf(t) == [present |-> TRUE, text |-> t]
NoContainer == [present |-> FALSE, paragraphs |-> <<>>]
Container(ps) == [present |-> TRUE, paragraphs |-> ps]
NoIndicator == [present |-> FALSE, number |-> <<>>, text |-> <<>>]
Indicator(num, t) == [present |-> TRUE, number |-> num, text |-> t]
Body(title, content, score, comments, flair) ==
  [title |-> title, content |-> content, score |-> score,
   comments |-> comments, flair |-> flair]

\* The two renderings a post has in the runs of the collector: as first
\* shown, and after an edit that also dropped its vote indicator.
BodyV1 == Body(TextOf(<<"first">>), Container(<<<<"one">>>>),
               Indicator(<<"5">>, <<"5">>), Indicator(<<"2">>, <<"2">>), NoText)
BodyV2 == Body(TextOf(<<"edited">>), Container(<<<<"one">>, <<"two">>>>),
               NoIndicator, Indicator(<<"3">>, <<"3">>), TextOf(<<"Vent">>))
Data == {BodyV1, BodyV2}

\* A rendered <shreddit-post> element: its id attribute (NoId when the
\* attribute is missing or empty), whether its shadow root is attached, and
\* the content the page shows for it at this moment.
Element(i, sh, d) == [id |-> i, shadow |-> sh, body |-> d]

RECURSIVE DomFrom(_, _, _)
\* The elements of ids i..MaxIds that are rendered, in document order.
DomFrom(i, f, d) ==
  IF i > MaxIds THEN <<>>
  ELSE (IF f[i] = "absent" THEN <<>> ELSE <<Element(i, f[i] = "attached", d)>>)
       \o DomFrom(i + 1, f, d)

\* What document.querySelectorAll('shreddit-post') returns in one pass: an
\* element without an id attribute (it never changes the state, so a page
\* without one behaves the same), then the rendered posts.
QuerySelectorAll(f, d) == <<Element(NoId, TRUE, d)>> \o DomFrom(1, f, d)

VARIABLES
  variant,          \* which script is loaded in the page
  inputs,           \* what the operator has typed into the form or the prompts
  pathname,         \* window.location.pathname
  now,              \* Date.now()
  collectedPosts,   \* Map postId -> postData
  currentBatch,     \* array of postData
  cumulativeCount,  \* number
  uploads,          \* the PUT requests issued by uploadFileToGitHub, in order
  displayed,        \* the arguments of the calls of displayCollectedPosts
  pc,               \* per invocation: where it is suspended
  params,           \* per invocation: the collection parameters
  overallStartTime, \* per invocation
  batchStartTime,   \* per invocation
  wakeAt,           \* per invocation: when the pending wait(1000) may resolve
  batchPosts,       \* per invocation: the csv/json data built by autoUploadBatch
  attempts,         \* per invocation (collectPosts only)
  scrolls,          \* per invocation: calls of window.scrollBy
  passes,           \* history: number of extraction passes
  seenIds,          \* history: ids of the elements given to extractPostData
  seenAttached,     \* history: ids given to extractPostData with a shadow root
  firstPass,        \* history: per invocation, the store size after its first pass
  resighted,        \* history: a stored id was sighted again with other content
  flushLog,         \* history: per completed flush, the Active Batch left by it
  sourceOf,         \* history: per stored id, what the page showed when stored
  lastAttached      \* history: ids given to extractPostData with a shadow root
                    \*          in the latest extraction pass

vars == <<variant, inputs, pathname, now, collectedPosts, currentBatch, cumulativeCount, uploads,
          displayed, pc, params, overallStartTime, batchStartTime, wakeAt,
          batchPosts, attempts, scrolls, passes, seenIds, seenAttached,
          firstPass, resighted, flushLog, sourceOf, lastAttached>>

globals == <<collectedPosts, currentBatch, cumulativeCount, uploads, displayed>>
locals == <<pc, params, overallStartTime, batchStartTime, wakeAt, batchPosts,
            attempts, scrolls>>
history == <<passes, seenIds, seenAttached, firstPass, resighted, flushLog,
             sourceOf, lastAttached>>

\* ------------------------------------------------------------ the store
EmptyMap == [k \in {} |-> k]
Has(store, id) == id \in DOMAIN store
MapSet(store, id, rec) ==
  [k \in DOMAIN store \cup {id} |-> IF k = id THEN rec ELSE store[k]]
Size(store) == Cardinality(DOMAIN store)
Values(store) == {store[k] : k \in DOMAIN store}

\* ------------------------------------------------------- extractPostData
NotFound == <<"Not found">>
NoFlair == <<"No flair">>

\* The separator between the paragraphs of the content: one line break in
\* reddit-scrape/content.js, a blank line in the prompt scripts and in
\* collectPosts.
ParagraphSeparator(v) == IF v = "modal" THEN <<Newline>> ELSE <<Newline, Newline>>

RECURSIVE TrimAll(_)
\* .map(p => p.textContent.trim())
TrimAll(ps) == IF ps = <<>> THEN <<>> ELSE <<Trim(Head(ps))>> \o TrimAll(Tail(ps))

\* titleElement ? titleElement.textContent.trim() : "Not found"
ExtractTitle(el) == IF el.present THEN Trim(el.text) ELSE NotFound

\* The paragraph texts of the body container, trimmed and joined.
ExtractContent(v, el) ==
  IF el.present THEN Join(TrimAll(el.paragraphs), ParagraphSeparator(v))
  ELSE NotFound

ExtractNumber_Empty(el) ==
  IF el.present THEN (IF el.number # <<>> THEN el.number ELSE Trim(el.text))
  ELSE <<>>

\* el ? (el.getAttribute('number') || el.textContent.trim()) : 'Not found'
ExtractNumber(el) ==
  IF el.present THEN (IF el.number # <<>> THEN el.number ELSE Trim(el.text))
  ELSE NotFound

\* flairElement ? flairElement.textContent.trim() : 'No flair'
ExtractFlair(el) == IF el.present THEN Trim(el.text) ELSE NoFlair

\* The record built from an element: everything is read from what the page
\* shows at this moment; only reddit-scrape/content.js records the flair.
PostData(v, post) ==
  IF v = "modal"
  THEN [postId |-> post.id, title |-> ExtractTitle(post.body.title),
        content |-> ExtractContent(v, post.body.content),
        score |-> ExtractNumber(post.body.score),
        comments |-> ExtractNumber(post.body.comments),
        flair |-> ExtractFlair(post.body.flair)]
  ELSE [postId |-> post.id, title |-> ExtractTitle(post.body.title),
        content |-> ExtractContent(v, post.body.content),
        score |-> ExtractNumber(post.body.score),
        comments |-> ExtractNumber(post.body.comments)]

ExtractPostData_NoShadowCheck(v, st, post) ==
  IF post.id = NoId \/ Has(st.store, post.id) THEN st
  ELSE [store |-> MapSet(st.store, post.id, PostData(v, post)),
        batch |-> IF v = "simple" THEN st.batch
                  ELSE Append(st.batch, PostData(v, post))]

ExtractPostData_NoHasCheck(v, st, post) ==
  IF post.id = NoId THEN st
  ELSE IF ~post.shadow THEN st
  ELSE [store |-> MapSet(st.store, post.id, PostData(v, post)),
        batch |-> IF v = "simple" THEN st.batch
                  ELSE Append(st.batch, PostData(v, post))]

ExtractPostData_MarksUnrendered(v, st, post) ==
  IF post.id = NoId \/ Has(st.store, post.id) THEN st
  ELSE IF ~post.shadow
  THEN [store |-> MapSet(st.store, post.id, PostData(v, post)),
        batch |-> st.batch]
  ELSE [store |-> MapSet(st.store, post.id, PostData(v, post)),
        batch |-> IF v = "simple" THEN st.batch
                  ELSE Append(st.batch, PostData(v, post))]

ExtractPostData_StoreOnly(v, st, post) ==
  IF post.id = NoId \/ Has(st.store, post.id) THEN st
  ELSE IF ~post.shadow THEN st
  ELSE [store |-> MapSet(st.store, post.id, PostData(v, post)),
        batch |-> st.batch]

\* st = [store, batch]: the store and the Active Batch.
ExtractPostData(v, st, post) ==
  IF post.id = NoId \/ Has(st.store, post.id) THEN st
  ELSE IF ~post.shadow THEN st
  ELSE [store |-> MapSet(st.store, post.id, PostData(v, post)),
        batch |-> IF v = "simple" THEN st.batch
                  ELSE Append(st.batch, PostData(v, post))]

RECURSIVE ExtractAll(_, _, _)
\* document.querySelectorAll('shreddit-post').forEach(extractPostData)
ExtractAll(v, st, dom) ==
  IF dom = <<>> THEN st
  ELSE ExtractAll(v, ExtractPostData(v, st, Head(dom)), Tail(dom))

\* ------------------------------------------------------------ parameters
\* The collection parameters a run can start with. The modal form accepts
\* every input > 0 and then applies parseInt, so "0.5" gives a target or a
\* batch size of 0; the prompt scripts substitute a default for anything
\* that is not positive after parsing.
TotalTimeChoices == {500, 2500}
BatchTimeChoices == {500, 2000}
TargetChoices(v) == IF v = "modal" THEN {0, 1, 2} ELSE {1, 2}
BatchSizeChoices == {1, 2}
\* window.scrollBy(0, scrollBy): the selected option of the modal form
\* (3000 is preselected), a constant 2000 in the prompt scripts.
ScrollChoices(v) == IF v = "modal" THEN {3000} ELSE {2000}
ParamChoices(v) ==
  IF v = "simple"
  THEN [totalTime : TotalTimeChoices, totalPosts : TargetChoices(v),
        batchTime : {0}, batchSize : {0}, scrollBy : ScrollChoices(v)]
  ELSE [totalTime : TotalTimeChoices, totalPosts : TargetChoices(v),
        batchTime : BatchTimeChoices, batchSize : BatchSizeChoices,
        scrollBy : ScrollChoices(v)]
NoParams == [totalTime |-> 0, totalPosts |-> 0, batchTime |-> 0, batchSize |-> 0,
             scrollBy |-> 0]

\* ------------------------------------------------- the operator's input
\* A text is a sequence of characters. Numbers are kept in tenths, so that
\* 0.5 is representable; NaN is a value of its own.
DigitChars == {"0", "1", "2", "3", "5"}
DigitVal(c) ==
  CASE c = "0" -> 0 [] c = "1" -> 1 [] c = "2" -> 2 [] c = "3" -> 3 [] c = "5" -> 5
NaN == [nan |-> TRUE, tenths |-> 0]
Num(t) == [nan |-> FALSE, tenths |-> t]

Sign(s) == IF s # <<>> /\ Head(s) = "-" THEN -1 ELSE 1
Unsigned(s) == IF s # <<>> /\ Head(s) \in {"-", "+"} THEN Tail(s) ELSE s

RECURSIVE DigitsPrefix(_)
\* The longest prefix of s made of digits.
DigitsPrefix(s) ==
  IF s = <<>> \/ Head(s) \notin DigitChars THEN <<>>
  ELSE <<Head(s)>> \o DigitsPrefix(Tail(s))

RECURSIVE Decimal(_, _)
Decimal(ds, acc) ==
  IF ds = <<>> THEN acc ELSE Decimal(Tail(ds), 10 * acc + DigitVal(Head(ds)))

\* The digits after a decimal point that directly follows the integer part.
Fraction(s) ==
  LET u == Unsigned(s)
      rest == SubSeq(u, Len(DigitsPrefix(u)) + 1, Len(u))
  IN IF rest # <<>> /\ Head(rest) = "." THEN DigitsPrefix(Tail(rest)) ELSE <<>>

\* parseInt(s, 10): the sign and the leading digits; what follows them,
\* a fraction included, is ignored; NaN when there is no leading digit.
ParseInt(s) ==
  LET ds == DigitsPrefix(Unsigned(s))
  IN IF ds = <<>> THEN NaN ELSE Num(Sign(s) * 10 * Decimal(ds, 0))

\* parseFloat(s): the sign, the leading digits and a fraction; NaN when
\* there is no digit. (The texts considered have one fractional digit.)
ParseFloat(s) ==
  LET ds == DigitsPrefix(Unsigned(s))
      fr == Fraction(s)
  IN IF ds = <<>> /\ fr = <<>> THEN NaN
     ELSE Num(Sign(s) * (10 * Decimal(ds, 0)
                           + (IF fr = <<>> THEN 0 ELSE DigitVal(fr[1]))))

\* Number(s), the coercion applied by `input.value <= 0` and isNaN: the
\* empty text is 0, and a text that is not a number as a whole is NaN.
ToNumber(s) ==
  LET u == Unsigned(s)
      ds == DigitsPrefix(u)
      fr == Fraction(s)
      used == (Len(s) - Len(u)) + Len(ds)
                + (IF Len(u) > Len(ds) /\ u[Len(ds) + 1] = "." THEN 1 + Len(fr) ELSE 0)
  IN IF s = <<>> THEN Num(0)
     ELSE IF used = Len(s) THEN ParseFloat(s) ELSE NaN

IsNaN(n) == n.nan
\* n <= 0 and n * k, with the comparison false and the product NaN for NaN.
LeqZero(n) == ~n.nan /\ n.tenths <= 0
Times(n, k) == IF n.nan THEN NaN ELSE Num(n.tenths * k)

\* A parameter as the loop uses it: an integer (milliseconds, posts, pixels).
\* NaN is carried as NaNParam.
NaNParam == -1
ParamValue(n) == IF n.nan THEN NaNParam ELSE n.tenths \div 10

\* What the operator can type into a field: a positive integer, a positive
\* fraction, zero, a negative number, nothing, or something that is no number.
TypedInputs == {<<"2">>, <<"0", ".", "5">>, <<"0">>, <<"-", "1">>, <<>>, <<"a">>}
\* window.prompt returns null when it is cancelled; parseFloat and parseInt
\* convert their argument to a string first.
PromptCancelled == <<"n", "u", "l", "l">>
Custom == <<"c", "u", "s", "t", "o", "m">>
Preselected == <<"3", "0", "0", "0">>
NoInputs == [totalTime |-> <<>>, totalPosts |-> <<>>, batchTime |-> <<>>,
             batchSize |-> <<>>, scrollBySelect |-> <<>>, customScrollBy |-> <<>>]
NumberFields == {"totalTime", "totalPosts", "batchTime", "batchSize"}

\* validate() of the modal form: every visible number input must be > 0 and
\* a number, and a custom scroll distance must be given and parse to > 0.
FieldValid(v) == ~(LeqZero(ToNumber(v)) \/ IsNaN(ToNumber(v)))
Validate(in) ==
  /\ \A f \in NumberFields : FieldValid(in[f])
  /\ in.scrollBySelect = Custom =>
       /\ FieldValid(in.customScrollBy)
       /\ ~(in.customScrollBy = <<>> \/ LeqZero(ParseInt(in.customScrollBy)))

\* The params object built by the Start handler of the modal form.
ModalParams(in) ==
  [totalTime |-> ParamValue(Times(ParseFloat(in.totalTime), 60000)),
   totalPosts |-> ParamValue(ParseInt(in.totalPosts)),
   batchTime |-> ParamValue(Times(ParseFloat(in.batchTime), 60000)),
   batchSize |-> ParamValue(ParseInt(in.batchSize)),
   scrollBy |-> IF in.scrollBySelect = Custom
                THEN ParamValue(ParseInt(in.customScrollBy))
                ELSE ParamValue(ParseInt(in.scrollBySelect))]

\* if (isNaN(x) || x <= 0) x = default
OrDefault(n, default) == IF IsNaN(n) \/ LeqZero(n) THEN default ELSE ParamValue(n)

\* The parameters of the prompt-configured script after its four prompts.
PromptParams(in) ==
  [totalTime |-> OrDefault(Times(ParseFloat(in.totalTime), 60000), 5 * 60000),
   totalPosts |-> OrDefault(ParseInt(in.totalPosts), 1000),
   batchTime |-> OrDefault(Times(ParseFloat(in.batchTime), 60000), 1 * 60000),
   batchSize |-> OrDefault(ParseInt(in.batchSize), 100),
   scrollBy |-> 2000]

\* ------------------------------------------------------ loop conditions
LoopCond_Or(v, p, elapsed, cc, size, att) ==
  IF v = "simple"
  THEN (size < p.totalPosts \/ elapsed < p.totalTime) /\ att < MaxAttempts
  ELSE cc < p.totalPosts \/ elapsed < p.totalTime

LoopCond_CountOnly(v, p, elapsed, cc, size, att) ==
  IF v = "simple" THEN size < p.totalPosts ELSE cc < p.totalPosts

\* while (cumulativeCount < targetTotalPosts && Date.now() - start < total)
\* and, in collectPosts, while (size < target && ... && attempts < 1000).
LoopCond(v, p, elapsed, cc, size, att) ==
  IF v = "simple"
  THEN size < p.totalPosts /\ elapsed < p.totalTime /\ att < MaxAttempts
  ELSE cc < p.totalPosts /\ elapsed < p.totalTime

FlushCond_And(p, elapsed, len) == elapsed >= p.batchTime /\ len >= p.batchSize

\* if (Date.now() - batchStartTime >= batchTimeMs || length >= batchSize)
FlushCond(p, elapsed, len) == elapsed >= p.batchTime \/ len >= p.batchSize

NeedsFinalFlush_Never(cb) == FALSE

\* if (currentBatch.length > 0) after the loop
NeedsFinalFlush(cb) == Len(cb) > 0

\* currentBatch = [] after the final flush: present in the prompt scripts,
\* absent from reddit-scrape/content.js.
ClearsAfterFinal(v) == v = "prompt"

ClearBatch_Keep(cb) == cb

\* currentBatch = [] after an in-loop flush.
ClearBatch(cb) == <<>>

\* cumulativeCount += currentBatch.length
AddCount(cc, cb) == cc + Len(cb)

RestartBatchTimer_Kept(bst, t) == bst

\* batchStartTime = Date.now() after an in-loop flush: t is the time at
\* which the statement runs.
RestartBatchTimer(bst, t) == t

AwaitsFlush_No == FALSE

\* await autoUploadBatch(currentBatch): the loop is suspended until both
\* requests of the flush have settled.
AwaitsFlush == TRUE

\* ------------------------------------------------------------- uploads
\* A path is the sequence of its segments and separators.
Slash == "/"
SubredditPath == <<Slash, "r", Slash, "mentalhealth", Slash>>
RootPath == <<Slash>>
UserPath == <<Slash, "user", Slash, "someone">>
Paths == {SubredditPath, RootPath, UserPath}

RECURSIVE Split(_, _)
\* path.split("/"): the texts between the separators, empty ones included;
\* cur is the text collected since the last separator.
Split(path, cur) ==
  IF path = <<>> THEN <<cur>>
  ELSE IF Head(path) = Slash THEN <<cur>> \o Split(Tail(path), "")
  ELSE Split(Tail(path), Head(path))

\* getSubredditName()
GetSubredditName(path) ==
  LET parts == Split(path, "")
  IN IF Len(parts) >= 3 THEN parts[3] ELSE "UnknownSubreddit"

\* getHumanReadableTimestamp(): the wall clock to the second. The page was
\* loaded two seconds before a full minute, so that the seconds wrap.
LoadedAt == [hour |-> 3, minute |-> 14, second |-> 58]
GetHumanReadableTimestamp(t) ==
  LET secs == LoadedAt.hour * 3600 + LoadedAt.minute * 60 + LoadedAt.second
                + t \div 1000
  IN [hour |-> (secs \div 3600) % 24, minute |-> (secs \div 60) % 60,
      second |-> secs % 60]

\* The id attribute of a post as a text.
IdText(i) == <<"t3_", ToString(i)>>

RECURSIVE ReplaceQuotes(_)
\* .replace(/"/g, '""')
ReplaceQuotes(t) ==
  IF t = <<>> THEN <<>>
  ELSE (IF Head(t) = Quote THEN <<Quote, Quote>> ELSE <<Head(t)>>)
       \o ReplaceQuotes(Tail(t))

CsvHeader == <<"Post ID", Comma, "Title", Comma, "Content", Comma, "Votes",
               Comma, "Comments", Newline>>

\* One row of generateCSVFromArray: post id, title and content with their
\* quotes doubled, score and comments as they are, each between quotes.
CsvRow(post) ==
  <<Quote>> \o ReplaceQuotes(IdText(post.postId)) \o <<Quote, Comma, Quote>>
    \o ReplaceQuotes(post.title) \o <<Quote, Comma, Quote>>
    \o ReplaceQuotes(post.content) \o <<Quote, Comma, Quote>>
    \o post.score \o <<Quote, Comma, Quote>>
    \o post.comments \o <<Quote, Newline>>

RECURSIVE CsvRows(_)
CsvRows(posts) ==
  IF posts = <<>> THEN <<>> ELSE CsvRow(Head(posts)) \o CsvRows(Tail(posts))

\* generateCSVFromArray
GenerateCSVFromArray(postsArray) == CsvHeader \o CsvRows(postsArray)

\* getJSONData: the records as structured text (its syntax is not modelled).
GetJSONData(postsArray) == postsArray

\* One PUT request of uploadFileToGitHub. The file name is
\* subreddit_timestamp_count.ext; posts is the batch as it was when
\* autoUploadBatch was called and content the file generated from it; site
\* is the call of autoUploadBatch it belongs to (in the loop or after it) and
\* due records whether the flush thresholds held at that call.
Request(r, ext, site, posts, due) ==
  [run |-> r, ext |-> ext, site |-> site,
   subreddit |-> GetSubredditName(pathname),
   timestamp |-> GetHumanReadableTimestamp(now), count |-> Len(posts),
   posts |-> posts, content |-> GenerateCSVFromArray(posts), due |-> due,
   status |-> "pending"]

\* The pending request of invocation r settles with status s.
Settle(ups, r, s) ==
  [i \in DOMAIN ups |->
     IF ups[i].run = r /\ ups[i].status = "pending"
     THEN [ups[i] EXCEPT !.status = s] ELSE ups[i]]

\* ------------------------------------------------------------------ Init
\* The page has just loaded the script: the module-level state of lines
\* 26-29 and no invocation of the click handler yet.
FreshPage ==
  /\ now = 0
  /\ collectedPosts = EmptyMap
  /\ currentBatch = <<>>
  /\ cumulativeCount = 0
  /\ uploads = <<>>
  /\ displayed = <<>>
  /\ pc = [r \in Runs |-> "Idle"]
  /\ params = [r \in Runs |-> NoParams]
  /\ overallStartTime = [r \in Runs |-> 0]
  /\ batchStartTime = [r \in Runs |-> 0]
  /\ wakeAt = [r \in Runs |-> 0]
  /\ batchPosts = [r \in Runs |-> <<>>]
  /\ attempts = [r \in Runs |-> 0]
  /\ scrolls = [r \in Runs |-> 0]
  /\ passes = [r \in Runs |-> 0]
  /\ seenIds = {}
  /\ seenAttached = {}
  /\ firstPass = [r \in Runs |-> 0]
  /\ resighted = FALSE
  /\ flushLog = <<>>
  /\ sourceOf = EmptyMap
  /\ lastAttached = {}

Init ==
  /\ variant \in Variants
  /\ inputs = NoInputs
  /\ pathname = SubredditPath
  /\ FreshPage

\* --------------------------------------------------- the collector loop
\* The synchronous stretch that starts at the top of the while loop, given
\* the values the preceding statements left: either scroll and suspend in
\* wait(1000), or leave the loop, where a non-empty batch is handed to
\* autoUploadBatch (which issues the csv request and suspends) and otherwise
\* displayCollectedPosts is called.
LoopTop(r, p, ost, bst, cc, cb, store, ups, att) ==
  /\ params' = [params EXCEPT ![r] = p]
  /\ overallStartTime' = [overallStartTime EXCEPT ![r] = ost]
  /\ batchStartTime' = [batchStartTime EXCEPT ![r] = bst]
  /\ attempts' = [attempts EXCEPT ![r] = att]
  /\ collectedPosts' = store
  /\ cumulativeCount' = cc
  /\ currentBatch' = cb
  /\ IF LoopCond(variant, p, now - ost, cc, Size(store), att)
     THEN /\ pc' = [pc EXCEPT ![r] = "Waiting"]
          /\ scrolls' = [scrolls EXCEPT ![r] = @ + 1]
          /\ wakeAt' = [wakeAt EXCEPT ![r] = now + SettleMs]
          /\ uploads' = ups
          /\ UNCHANGED <<displayed, batchPosts>>
     ELSE IF variant # "simple" /\ NeedsFinalFlush(cb)
     THEN /\ pc' = [pc EXCEPT ![r] = "FinalCsv"]
          /\ batchPosts' = [batchPosts EXCEPT ![r] = cb]
          /\ uploads' = Append(ups, Request(r, "csv", "final", cb,
                                       FlushCond(p, now - bst, Len(cb))))
          /\ UNCHANGED <<displayed, scrolls, wakeAt>>
     ELSE /\ pc' = [pc EXCEPT ![r] = "Done"]
          /\ displayed' = Append(displayed, Values(store))
          /\ uploads' = ups
          /\ UNCHANGED <<batchPosts, scrolls, wakeAt>>

\* The collect button is clicked (content.js): the settings modal opens.
ClickModal(r) ==
  /\ variant = "modal"
  /\ pc[r] = "Idle"
  /\ pc' = [pc EXCEPT ![r] = "Configuring"]
  /\ UNCHANGED <<variant, inputs, pathname, now, globals, params, overallStartTime,
                 batchStartTime, wakeAt, batchPosts, attempts, scrolls,
                 history>>

\* Cancel in the modal: resolve(null), and the continuation returns.
CancelModal(r) ==
  /\ variant = "modal"
  /\ pc[r] = "Configuring"
  /\ pc' = [pc EXCEPT ![r] = "Idle"]
  /\ UNCHANGED <<variant, inputs, pathname, now, globals, params, overallStartTime,
                 batchStartTime, wakeAt, batchPosts, attempts, scrolls,
                 history>>

\* Start in the modal with inputs that pass validate(): the loop begins.
StartModal(r) ==
  /\ variant = "modal"
  /\ pc[r] = "Configuring"
  /\ \E p \in ParamChoices(variant) :
       LoopTop(r, p, now, now, cumulativeCount, currentBatch, collectedPosts,
               uploads, attempts[r])
  /\ UNCHANGED <<variant, inputs, pathname, now, history>>

\* The collect button is clicked (prompt scripts): the four prompts are
\* answered synchronously and the loop begins.
ClickPrompt(r) ==
  /\ variant = "prompt"
  /\ pc[r] = "Idle"
  /\ \E p \in ParamChoices(variant) :
       LoopTop(r, p, now, now, cumulativeCount, currentBatch, collectedPosts,
               uploads, attempts[r])
  /\ UNCHANGED <<variant, inputs, pathname, now, history>>

\* The collect button is clicked (collectPosts): the store is cleared, the
\* two prompts are answered and the loop begins.
ClickSimple(r) ==
  /\ variant = "simple"
  /\ pc[r] = "Idle"
  /\ \E p \in ParamChoices(variant) :
       LoopTop(r, p, now, now, cumulativeCount, currentBatch, EmptyMap,
               uploads, 0)
  /\ sourceOf' = EmptyMap
  /\ UNCHANGED <<variant, inputs, pathname, now, passes, seenIds, seenAttached,
                 firstPass, resighted, flushLog, lastAttached>>

\* Time passes while an invocation is suspended.
Tick ==
  /\ now < MaxClock
  /\ \E r \in Runs : pc[r] \in {"Waiting", "LoopCsv", "LoopJson", "FinalCsv", "FinalJson"}
  /\ now' = now + 500
  /\ UNCHANGED <<variant, inputs, pathname, globals, locals, history>>

\* wait(1000) resolves: one extraction pass over the rendered elements, then
\* the flush check of the batched scripts, then (when no flush is due) the
\* top of the loop again.
\* f tells how each post is rendered and d what the page shows in them.
Cycle(r, f, d) ==
       LET dom == QuerySelectorAll(f, d)
           st == ExtractAll(variant, [store |-> collectedPosts,
                                      batch |-> currentBatch], dom)
           att == IF variant = "simple" THEN attempts[r] + 1 ELSE attempts[r]
           rendered == {i \in Ids : f[i] # "absent"}
           due == FlushCond(params[r], now - batchStartTime[r], Len(st.batch))
           req == Request(r, "csv", "loop", st.batch, due)
       IN /\ passes' = [passes EXCEPT ![r] = @ + 1]
          /\ seenIds' = seenIds \cup rendered
          /\ seenAttached' = seenAttached \cup {i \in Ids : f[i] = "attached"}
          /\ lastAttached' = {i \in Ids : f[i] = "attached"}
          /\ firstPass' = IF passes[r] = 0
                          THEN [firstPass EXCEPT ![r] = Size(st.store)]
                          ELSE firstPass
          /\ resighted' = (resighted \/ \E i \in rendered :
                              Has(collectedPosts, i)
                              /\ collectedPosts[i] # PostData(variant, Element(i, TRUE, d)))
          /\ UNCHANGED flushLog
          /\ sourceOf' = [id \in DOMAIN st.store |->
                            IF Has(collectedPosts, id) THEN sourceOf[id] ELSE d]
          /\ IF variant # "simple" /\ due /\ AwaitsFlush
             THEN /\ pc' = [pc EXCEPT ![r] = "LoopCsv"]
                  /\ batchPosts' = [batchPosts EXCEPT ![r] = st.batch]
                  /\ uploads' = Append(uploads, req)
                  /\ collectedPosts' = st.store
                  /\ currentBatch' = st.batch
                  /\ UNCHANGED <<cumulativeCount, displayed, params,
                                 overallStartTime, batchStartTime, wakeAt,
                                 attempts, scrolls>>
             ELSE IF variant # "simple" /\ due
             THEN LoopTop(r, params[r], overallStartTime[r],
                          RestartBatchTimer(batchStartTime[r], now),
                          AddCount(cumulativeCount, st.batch),
                          ClearBatch(st.batch), st.store,
                          Append(uploads, req), att)
             ELSE LoopTop(r, params[r], overallStartTime[r], batchStartTime[r],
                          cumulativeCount, st.batch, st.store, uploads, att)

WaitDone(r) ==
  /\ pc[r] = "Waiting"
  /\ now >= wakeAt[r]
  /\ \E f \in [Ids -> ShadowStates], d \in Data : Cycle(r, f, d)
  /\ UNCHANGED <<variant, inputs, pathname, now>>

\* The number of requests the remote store answered with an error status.
Refused(ups) == Cardinality({i \in DOMAIN ups : ups[i].status = "refused"})

\* The statuses a request can settle with such that the promise of
\* uploadFileToGitHub is fulfilled: fetch resolves for every HTTP status and
\* response.json() parses the error body as well.
FulfilledStatuses(ups) ==
  IF Refused(ups) < MaxRefused THEN {"accepted", "refused"} ELSE {"accepted"}

\* The request of invocation r that is in flight.
Pending(ups, r) ==
  ups[CHOOSE i \in DOMAIN ups : ups[i].run = r /\ ups[i].status = "pending"]

JsonRequest_Csv(csv, posts) == csv

JsonRequest_Restamped(csv, posts) ==
  [csv EXCEPT !.ext = "json", !.posts = posts, !.content = GetJSONData(posts),
              !.timestamp = GetHumanReadableTimestamp(now)]

\* The second request of autoUploadBatch: the json file of the same batch,
\* under the same subreddit, timestamp and count as the csv file.
JsonRequest(csv, posts) ==
  [csv EXCEPT !.ext = "json", !.posts = posts, !.content = GetJSONData(posts)]

\* The csv request is fulfilled: autoUploadBatch issues the json request.
CsvUploaded(r) ==
  /\ pc[r] \in {"LoopCsv", "FinalCsv"}
  /\ \E s \in FulfilledStatuses(uploads) :
       uploads' = Append(Settle(uploads, r, s),
                         JsonRequest(Pending(uploads, r), batchPosts[r]))
  /\ pc' = [pc EXCEPT ![r] = IF pc[r] = "LoopCsv" THEN "LoopJson" ELSE "FinalJson"]
  /\ UNCHANGED <<variant, inputs, pathname, now, collectedPosts, currentBatch, cumulativeCount,
                 displayed, params, overallStartTime, batchStartTime, wakeAt,
                 batchPosts, attempts, scrolls, history>>

\* The json request of an in-loop flush is fulfilled: autoUploadBatch
\* returns, the count is raised, the batch cleared, the batch timer reset,
\* and control is at the top of the loop.
LoopFlushDone(r) ==
  /\ pc[r] = "LoopJson"
  /\ \E s \in FulfilledStatuses(uploads) :
       LoopTop(r, params[r], overallStartTime[r],
               RestartBatchTimer(batchStartTime[r], now),
               AddCount(cumulativeCount, currentBatch), ClearBatch(currentBatch),
               collectedPosts, Settle(uploads, r, s), attempts[r])
  /\ flushLog' = Append(flushLog, [run |-> r, site |-> "loop",
                                   left |-> Len(ClearBatch(currentBatch))])
  /\ UNCHANGED <<variant, inputs, pathname, now, passes, seenIds, seenAttached,
                 firstPass, resighted, sourceOf, lastAttached>>

\* The json request of the final flush is fulfilled: the count is raised,
\* the batch is cleared where the script does so, and the store is displayed.
FinalFlushDone(r) ==
  /\ pc[r] = "FinalJson"
  /\ \E s \in FulfilledStatuses(uploads) : uploads' = Settle(uploads, r, s)
  /\ cumulativeCount' = AddCount(cumulativeCount, currentBatch)
  /\ currentBatch' = IF ClearsAfterFinal(variant) THEN <<>> ELSE currentBatch
  /\ displayed' = Append(displayed, Values(collectedPosts))
  /\ pc' = [pc EXCEPT ![r] = "Done"]
  /\ flushLog' = Append(flushLog, [run |-> r, site |-> "final",
                                   left |-> Len(currentBatch')])
  /\ UNCHANGED <<variant, inputs, pathname, now, collectedPosts, params, overallStartTime,
                 batchStartTime, wakeAt, batchPosts, attempts, scrolls,
                 passes, seenIds, seenAttached, firstPass, resighted, sourceOf,
                 lastAttached>>

AfterFailure_Swallowed(v) == "Waiting"

\* Where a rejected await leaves the invocation: in the catch block of
\* content.js (which alerts and returns), or, in the prompt scripts, out of
\* collectPostsBatched with its promise rejected.
AfterFailure(v) == IF v = "modal" THEN "Failed" ELSE "Rejected"

\* A request fails at the network level: the awaited promise rejects. In
\* content.js the catch block alerts the operator; in the prompt scripts
\* nothing catches it and the promise of collectPostsBatched rejects.
UploadFailed(r) ==
  /\ pc[r] \in {"LoopCsv", "LoopJson", "FinalCsv", "FinalJson"}
  /\ uploads' = Settle(uploads, r, "failed")
  /\ pc' = [pc EXCEPT ![r] = AfterFailure(variant)]
  /\ UNCHANGED <<variant, inputs, pathname, now, collectedPosts, currentBatch, cumulativeCount,
                 displayed, params, overallStartTime, batchStartTime, wakeAt,
                 batchPosts, attempts, scrolls, history>>

\* --------------------------------------------------------- specification
\* One invocation of the click handler after a page load.
FirstRun == 1

Next ==
  \/ ClickModal(FirstRun)
  \/ CancelModal(FirstRun)
  \/ StartModal(FirstRun)
  \/ ClickPrompt(FirstRun)
  \/ ClickSimple(FirstRun)
  \/ Tick
  \/ WaitDone(FirstRun)
  \/ CsvUploaded(FirstRun)
  \/ LoopFlushDone(FirstRun)
  \/ FinalFlushDone(FirstRun)
  \/ UploadFailed(FirstRun)

Spec == Init /\ [][Next]_vars

\* ------------------------------------------------------ derived notions
\* The calls of autoUploadBatch so far: each call issues its csv request
\* before it first suspends, so the csv requests are the batches handed to it.
Flushed == SelectSeq(uploads, LAMBDA q : q.ext = "csv")

RECURSIVE SumCount(_)
SumCount(reqs) ==
  IF reqs = <<>> THEN 0 ELSE Len(Head(reqs).posts) + SumCount(Tail(reqs))

\* The places (flush, position) at which a record occurs in flushed batches.
Occurrences(rec) ==
  {<<i, j>> \in (DOMAIN Flushed) \X (1..MaxIds + 1) :
     j \in DOMAIN Flushed[i].posts /\ Flushed[i].posts[j] = rec}

Batched == variant # "simple"
Started(r) == pc[r] \notin {"Idle", "Configuring"}

\* ----------------------------------------------------------------- C1
\* C1: when a run of collectPostsBatched has reached Done, the lengths of
\* the batches handed to autoUploadBatch add up to the size of the store,
\* and every stored record is in exactly one of those batches.
C1_FlushCompleteness ==
  \A r \in Runs :
    (Batched /\ pc[r] = "Done") =>
      /\ SumCount(Flushed) = Size(collectedPosts)
      /\ \A id \in DOMAIN collectedPosts :
           Cardinality(Occurrences(collectedPosts[id])) = 1

\* A finished run that flushed inside the loop and once more on loop exit.
C1_Witness ==
  /\ Batched /\ pc[FirstRun] = "Done"
  /\ Size(collectedPosts) = MaxIds
  /\ \E i, j \in DOMAIN Flushed :
       /\ Flushed[i].site = "loop" /\ Flushed[i].posts # <<>>
       /\ Flushed[j].site = "final"

\* ----------------------------------------------------------------- C2
\* C2: with a target of N posts, N extractable posts present from the first
\* pass, a batch size above N, a batch time above one settle interval and a
\* total time above the batch time, the run is Done after one cycle with
\* exactly N records flushed.
C2_DoneAfterOneCycle ==
  \A r \in Runs :
    ( /\ Batched /\ pc[r] = "Done"
      /\ params[r].totalPosts >= 1
      /\ firstPass[r] = params[r].totalPosts
      /\ params[r].batchSize > params[r].totalPosts
      /\ params[r].batchTime > SettleMs
      /\ params[r].totalTime > params[r].batchTime )
    => (scrolls[r] = 1 /\ SumCount(Flushed) = params[r].totalPosts)

\* ----------------------------------------------------------------- C3
\* An invocation ends a cycle in this step (its extraction pass ran and the
\* end-of-cycle check followed), calls autoUploadBatch in the loop, or calls
\* it after the loop.
CycleEnds(r) == passes'[r] # passes[r]
LoopFlushStarts(r) ==
  Len(Flushed') = Len(Flushed) + 1 /\ Flushed'[Len(Flushed')].run = r
  /\ Flushed'[Len(Flushed')].site = "loop"
FinalFlushStarts(r) ==
  Len(Flushed') = Len(Flushed) + 1 /\ Flushed'[Len(Flushed')].run = r
  /\ Flushed'[Len(Flushed')].site = "final"
\* The thresholds as the end-of-cycle check of this step sees them.
ThresholdsHold(r) ==
  \/ Len(currentBatch') >= params[r].batchSize
  \/ now - batchStartTime[r] >= params[r].batchTime

\* C3 as stated: a flush occurs if and only if, at the end-of-cycle check,
\* the Active Batch length is >= B or the time since the last flush is >= T.
C3_FlushIffThreshold ==
  [][\A r \in Runs : Batched =>
       ((LoopFlushStarts(r) \/ FinalFlushStarts(r))
          <=> (CycleEnds(r) /\ ThresholdsHold(r)))]_vars

\* C3 as amended: a flush inside the loop occurs exactly at the end-of-cycle
\* checks at which a threshold holds; the only other flush is the one on
\* loop exit, of a non-empty remaining batch, whatever the thresholds.
C3_LoopFlushIffThreshold ==
  [][\A r \in Runs : Batched =>
       /\ LoopFlushStarts(r) <=> (CycleEnds(r) /\ ThresholdsHold(r))
       /\ FinalFlushStarts(r) =>
            /\ currentBatch' # <<>>
            /\ Flushed'[Len(Flushed')].posts = currentBatch'
            /\ ~(cumulativeCount' < params'[r].totalPosts
                   /\ now - overallStartTime'[r] < params'[r].totalTime)]_vars

\* A run that flushed a non-empty batch inside the loop and later flushed a
\* remainder below both thresholds on loop exit.
C3_Witness ==
  /\ Batched /\ pc[FirstRun] = "Done"
  /\ \E i, j \in DOMAIN Flushed :
       /\ Flushed[i].site = "loop" /\ Flushed[i].posts # <<>>
       /\ Flushed[j].site = "final"
       /\ Len(Flushed[j].posts) < params[FirstRun].batchSize
       /\ ~Flushed[j].due

\* ----------------------------------------------------------------- C4
\* C4 as stated: the size of the store equals the number of distinct
\* identifiers of the elements given to extractPostData.
C4_SizeIsDistinctSeen == Size(collectedPosts) = Cardinality(seenIds)

\* C4 as amended: the size of the store equals the number of distinct
\* identifiers given to extractPostData on an element whose shadow root
\* was attached at that call, whatever the order and the repetitions.
C4_SizeIsDistinctAttached ==
  /\ Size(collectedPosts) = Cardinality(seenAttached)
  /\ DOMAIN collectedPosts = seenAttached

\* Several passes have seen the same identifiers again, one of them never
\* with a shadow root.
C4_Witness ==
  /\ passes[FirstRun] >= 2
  /\ resighted
  /\ seenAttached # {}
  /\ seenIds # seenAttached

\* ----------------------------------------------------------------- C5
\* C5: a run whose total time is positive and below one settle interval
\* issues exactly one scroll; when it is Done it has run one extraction
\* pass and every record of the store was handed to autoUploadBatch.
C5_OneCycleOnShortBudget ==
  \A r \in Runs :
    ( /\ Started(r)
      /\ params[r].totalTime > 0 /\ params[r].totalTime < SettleMs
      /\ params[r].totalPosts > 0 )
    => /\ scrolls[r] = 1
       /\ passes[r] <= 1
       /\ pc[r] = "Done" =>
            /\ passes[r] = 1
            /\ Batched => \A id \in DOMAIN collectedPosts :
                             Occurrences(collectedPosts[id]) # {}

\* Two finished short runs: one flushed what its only cycle collected, ...
C5_Witness ==
  /\ Batched /\ pc[FirstRun] = "Done"
  /\ params[FirstRun].totalTime < SettleMs
  /\ params[FirstRun].totalPosts > Size(collectedPosts)
  /\ Size(collectedPosts) >= 1
  /\ SumCount(Flushed) = Size(collectedPosts)

\* ... the other collected nothing and flushed nothing.
C5_WitnessEmpty ==
  /\ Batched /\ pc[FirstRun] = "Done"
  /\ params[FirstRun].totalTime < SettleMs
  /\ params[FirstRun].totalPosts > 0
  /\ Size(collectedPosts) = 0 /\ uploads = <<>>

\* ----------------------------------------------------------------- C6
Fulfilled == {"accepted", "refused"}

\* The record was in a batch whose autoUploadBatch call has returned: both
\* its csv and its json request were fulfilled.
FlushedAndReturned(rec) ==
  \E i, j \in DOMAIN uploads :
    /\ i < j
    /\ uploads[i].ext = "csv" /\ uploads[j].ext = "json"
    /\ uploads[i].run = uploads[j].run
    /\ uploads[i].posts = uploads[j].posts
    /\ uploads[i].status \in Fulfilled /\ uploads[j].status \in Fulfilled
    /\ \E k \in DOMAIN uploads[i].posts : uploads[i].posts[k] = rec

FinalFlushes(r) ==
  {i \in DOMAIN Flushed : Flushed[i].run = r /\ Flushed[i].site = "final"}

\* C6: when the loop has been left and the run is Done, the remaining
\* non-empty batch was flushed exactly once, displayCollectedPosts was
\* called with the full store, and only after every flush had returned:
\* every record shown was handed to the uploader, in exactly one batch.
C6_FinalFlushBeforeDisplay ==
  Batched =>
    /\ displayed # <<>> =>
         \A i \in DOMAIN uploads : uploads[i].status \in Fulfilled
    /\ \A k \in DOMAIN displayed : \A rec \in displayed[k] :
         FlushedAndReturned(rec) /\ Cardinality(Occurrences(rec)) = 1
    /\ \A r \in Runs :
         /\ pc[r] = "Done" =>
              /\ displayed = <<Values(collectedPosts)>>
              /\ Cardinality(FinalFlushes(r)) <= 1
              /\ \A i \in FinalFlushes(r) : Flushed[i].posts # <<>>
         /\ pc[r] \in {"Failed", "Rejected"} => displayed = <<>>

\* A finished run whose last cycle left a remainder: it was flushed by the
\* final flush and then shown together with the records flushed in the loop.
C6_Witness ==
  /\ Batched /\ pc[FirstRun] = "Done"
  /\ FinalFlushes(FirstRun) # {}
  /\ Len(Flushed) >= 2
  /\ displayed # <<>> /\ Cardinality(displayed[1]) = MaxIds

\* ----------------------------------------------------------------- C7
\* C7: after every completed call of autoUploadBatch, in the loop and on
\* loop exit, currentBatch is empty.
C7_BatchEmptyAfterEveryFlush ==
  \A i \in DOMAIN flushLog : flushLog[i].left = 0

\* ----------------------------------------------------------------- C8
\* C8: the Active Batch holds no record whose post id was in a batch whose
\* flush has already completed, and no post id is in two flushed batches.
C8_BatchDisjointFromFlushed ==
  /\ \A k \in DOMAIN currentBatch : ~FlushedAndReturned(currentBatch[k])
  /\ \A id \in Ids :
       Cardinality({i \in DOMAIN Flushed :
                      \E k \in DOMAIN Flushed[i].posts :
                        Flushed[i].posts[k].postId = id}) <= 1

\* ----------------------------------------------------------------- C9
\* C9: during a run the store only grows: an id once stored stays stored,
\* and the record under it is never replaced by a later sighting.
C9_StoreOnlyGrows ==
  [][\A id \in DOMAIN collectedPosts :
       /\ id \in DOMAIN collectedPosts'
       /\ collectedPosts'[id] = collectedPosts[id]]_vars

\* A stored post was rendered again in a later pass with other content, and
\* the store still holds what the first sighting recorded.
C9_Witness ==
  /\ resighted
  /\ passes[FirstRun] >= 2
  /\ \E id \in DOMAIN collectedPosts : collectedPosts[id].title = <<"first">>
  /\ \E id \in DOMAIN collectedPosts : collectedPosts[id].title = <<"edited">>

\* ----------------------------------------------------------------- C10
\* A flush is in flight: autoUploadBatch has issued a request that has not
\* settled (it issues the json request in the step that settles the csv one).
FlushInFlight == \E i \in DOMAIN uploads : uploads[i].status = "pending"

\* C10: while a flush is in flight no extraction pass runs and the store
\* does not change; as long as it stays in flight no scroll is issued and
\* the Active Batch does not change.
C10_NothingMovesDuringFlush ==
  [][FlushInFlight =>
       /\ passes' = passes
       /\ collectedPosts' = collectedPosts
       /\ FlushInFlight' => (scrolls' = scrolls /\ currentBatch' = currentBatch)]_vars

\* A flush inside the loop whose second request is still in flight while
\* time has passed since the wait ended.
C10_Witness ==
  /\ pc[FirstRun] = "LoopJson"
  /\ FlushInFlight
  /\ now > wakeAt[FirstRun]
  /\ currentBatch # <<>>

\* ----------------------------------------------------------------- C11
\* The collect button stays in the page, enabled, while a run is in
\* progress (button.onclick = collectPostsBatched is all the script does with
\* it): a second click starts a second invocation of the handler on the same
\* module-level state. While the settings modal of content.js is open it
\* covers the button, so the second click comes once the first run has started.
SecondRun == 2

InitBatched == Init /\ variant # "simple"

\* The inputs of the overlapping runs: a budget of one cycle or of several,
\* a target of two posts, a batch time of two cycles and a batch size of one
\* or two.
OverlapParams == [totalTime : TotalTimeChoices, totalPosts : {2}, batchTime : {2000},
                  batchSize : {1, 2}, scrollBy : {2000, 3000}]
OverlapInput(r) == params'[r] \in OverlapParams

\* The page of the overlapping runs: a rendered post has its shadow root
\* attached and shows the same content in every pass.
SettledPage ==
  /\ seenIds' = seenAttached'
  /\ ~resighted'
  /\ \A id \in DOMAIN collectedPosts' :
       collectedPosts'[id] = PostData(variant, Element(id, TRUE, BodyV1))

\* The remote store of the overlapping runs accepts every request.
StoreAccepts == \A i \in DOMAIN uploads' : uploads'[i].status # "refused"

\* The overlapping runs are followed for two settle intervals.
OverlapClock == 2 * SettleMs

SecondClick ==
  /\ Started(FirstRun)
  /\ ClickModal(SecondRun) \/ (ClickPrompt(SecondRun) /\ OverlapInput(SecondRun))

NextOverlap ==
  \/ ClickModal(FirstRun)
  \/ CancelModal(FirstRun)
  \/ StartModal(FirstRun) /\ OverlapInput(FirstRun)
  \/ ClickPrompt(FirstRun) /\ OverlapInput(FirstRun)
  \/ SecondClick
  \/ CancelModal(SecondRun)
  \/ StartModal(SecondRun) /\ OverlapInput(SecondRun)
  \/ Tick /\ now' <= OverlapClock
  \/ \E r \in {FirstRun, SecondRun} :
       \/ WaitDone(r) /\ SettledPage
       \/ CsvUploaded(r) /\ StoreAccepts
       \/ LoopFlushDone(r) /\ StoreAccepts
       \/ FinalFlushDone(r) /\ StoreAccepts

SpecOverlap == InitBatched /\ [][NextOverlap]_vars

\* An invocation is active: it has started its run and has neither finished
\* nor failed, so its continuation will still read and write the shared state.
Active(r) == pc[r] \in {"Waiting", "LoopCsv", "LoopJson", "FinalCsv", "FinalJson"}

\* C11: at no moment are two invocations of collectPostsBatched both active
\* on collectedPosts, currentBatch and cumulativeCount.
C11_OneActiveInvocation == Cardinality({r \in Runs : Active(r)}) <= 1

\* ----------------------------------------------------------------- C12
\* The requests issued by invocation r, in the order of issue.
RunUploads(r) == SelectSeq(uploads, LAMBDA q : q.run = r)

\* C12 as stated: every flush issues exactly two requests, the csv file
\* first and the json file second, the second only after the first has
\* completed, both built from the same batch contents. The requests of a run
\* pair up: the odd ones are csv requests, each followed, once it has
\* completed, by the json request of the same batch.
C12_TwoRequestsPerFlush ==
  \A r \in Runs :
    LET ru == RunUploads(r)
    IN \A k \in DOMAIN ru :
         /\ k % 2 = 1 =>
              /\ ru[k].ext = "csv"
              /\ ru[k].status # "pending" => k + 1 \in DOMAIN ru
         /\ k % 2 = 0 =>
              /\ ru[k].ext = "json"
              /\ ru[k - 1].status # "pending"
              /\ ru[k].posts = ru[k - 1].posts

\* C12 as amended: the json request of a flush is issued exactly when its
\* csv request has been fulfilled, never while it is in flight, and is built
\* from the same batch; a flush whose csv request fails issues no second
\* request, and nothing is issued by that run afterwards.
C12_JsonAfterCsvFulfilled ==
  \A r \in Runs :
    LET ru == RunUploads(r)
    IN \A k \in DOMAIN ru :
         /\ k % 2 = 1 =>
              /\ ru[k].ext = "csv"
              /\ ru[k].status \in Fulfilled <=> k + 1 \in DOMAIN ru
         /\ k % 2 = 0 =>
              /\ ru[k].ext = "json"
              /\ ru[k - 1].status \in Fulfilled
              /\ ru[k].posts = ru[k - 1].posts
              /\ ru[k].count = ru[k - 1].count
              /\ ru[k].site = ru[k - 1].site
         /\ ru[k].status \in {"pending", "failed"} => k = Len(ru)

\* A finished run with two flushes of different batches, four requests.
C12_Witness ==
  /\ pc[FirstRun] = "Done"
  /\ Len(RunUploads(FirstRun)) = 4
  /\ RunUploads(FirstRun)[1].posts # RunUploads(FirstRun)[3].posts
  /\ RunUploads(FirstRun)[1].posts # <<>>
  /\ RunUploads(FirstRun)[3].posts # <<>>

\* ----------------------------------------------------------------- C13
\* The operator was told that the run of invocation r failed: the catch
\* block of content.js has shown its alert. The prompt scripts have no catch
\* block; there the promise returned by the click handler rejects unobserved.
Notified(r) == pc[r] = "Failed"

\* A request of invocation r failed at the network level.
HasFailedUpload(r) ==
  \E i \in DOMAIN uploads : uploads[i].run = r /\ uploads[i].status = "failed"

\* C13: in every variant, when an upload of a flush fails the operator is
\* notified, and the run neither continues nor finishes as if the batch had
\* been persisted.
C13_FailedFlushReported ==
  \A r \in Runs :
    HasFailedUpload(r) =>
      /\ Notified(r)
      /\ displayed = <<>>

\* ----------------------------------------------------------------- C14
\* C14: an error raised during a cycle (the one the scripts can raise is a
\* rejected upload) aborts the run immediately: in the step in which the
\* request fails and ever after, no scroll, no extraction pass and no
\* further request is issued, the Active Batch in progress is neither
\* flushed nor cleared nor counted, and displayCollectedPosts is not reached.
C14_ErrorAbortsRun ==
  [][\A r \in Runs :
       HasFailedUpload(r)' =>
         /\ scrolls' = scrolls
         /\ passes' = passes
         /\ Len(uploads') = Len(uploads)
         /\ collectedPosts' = collectedPosts
         /\ currentBatch' = currentBatch
         /\ cumulativeCount' = cumulativeCount
         /\ displayed' = <<>>
         /\ pc'[r] \in {"Failed", "Rejected"}]_vars

\* The json request of a second flush failed while the batch it was
\* uploading is still the Active Batch, and time has gone on since.
C14_Witness ==
  /\ HasFailedUpload(FirstRun)
  /\ Len(uploads) = 4
  /\ uploads[4].status = "failed"
  /\ currentBatch # <<>>
  /\ now > wakeAt[FirstRun]

\* ----------------------------------------------------------------- C15
\* The configuration step on its own: the operator has filled in the modal
\* form, or is about to answer the four prompts, with arbitrary texts.
ModalInputs ==
  [totalTime : TypedInputs, totalPosts : TypedInputs, batchTime : TypedInputs,
   batchSize : TypedInputs, scrollBySelect : {Preselected},
   customScrollBy : {<<>>}]
  \cup
  [totalTime : {<<"2">>, <<"0", ".", "5">>}, totalPosts : {<<"2">>},
   batchTime : {<<"2">>}, batchSize : {<<"2">>}, scrollBySelect : {Custom},
   customScrollBy : TypedInputs]
PromptInputs ==
  [totalTime : TypedInputs \cup {PromptCancelled},
   totalPosts : TypedInputs \cup {PromptCancelled},
   batchTime : TypedInputs \cup {PromptCancelled},
   batchSize : TypedInputs \cup {PromptCancelled},
   scrollBySelect : {<<>>}, customScrollBy : {<<>>}]

InitValidate ==
  /\ variant \in {"modal", "prompt"}
  /\ inputs \in (IF variant = "modal" THEN ModalInputs ELSE PromptInputs)
  /\ pathname = SubredditPath
  /\ FreshPage

\* Start is clicked in the modal: the handler returns when validate() fails
\* (the button is disabled then), and otherwise parses the fields, removes
\* the modal and enters the loop.
SubmitModal(r) ==
  /\ variant = "modal"
  /\ pc[r] = "Configuring"
  /\ Validate(inputs)
  /\ LoopTop(r, ModalParams(inputs), now, now, cumulativeCount, currentBatch,
             collectedPosts, uploads, attempts[r])
  /\ UNCHANGED <<variant, inputs, pathname, now, history>>

StartBlocked(r) ==
  /\ variant = "modal"
  /\ pc[r] = "Configuring"
  /\ ~Validate(inputs)
  /\ UNCHANGED vars

\* The collect button of the prompt script is clicked: the four prompts are
\* answered (or cancelled), defaults are substituted and the loop is entered.
SubmitPrompt(r) ==
  /\ variant = "prompt"
  /\ pc[r] = "Idle"
  /\ LoopTop(r, PromptParams(inputs), now, now, cumulativeCount, currentBatch,
             collectedPosts, uploads, attempts[r])
  /\ UNCHANGED <<variant, inputs, pathname, now, history>>

NextValidate ==
  \/ ClickModal(FirstRun)
  \/ CancelModal(FirstRun)
  \/ SubmitModal(FirstRun)
  \/ StartBlocked(FirstRun)
  \/ SubmitPrompt(FirstRun)

SpecValidate == InitValidate /\ [][NextValidate]_vars

\* C15: whatever the operator typed, the loop is never entered with a total
\* time, target, batch time, batch size or scroll distance that is zero,
\* negative or NaN after parsing.
C15_NoNonPositiveParameter ==
  \A r \in Runs :
    Started(r) =>
      \A f \in {"totalTime", "totalPosts", "batchTime", "batchSize", "scrollBy"} :
        params[r][f] > 0

\* ----------------------------------------------------------------- C16
\* The operator cancelled one of the prompts of the configuration step.
APromptCancelled == \E f \in NumberFields : inputs[f] = PromptCancelled

\* C16: when the operator cancels the configuration step (Cancel in the
\* modal, or cancelling a prompt) the collector is back in Idle without
\* having entered Running: no scroll, no extraction pass and no upload has
\* happened, and store, batch and cumulative count are as they were.
C16_CancelAborts ==
  \A r \in Runs :
    (APromptCancelled \/ (variant = "modal" /\ pc[r] = "Idle")) =>
      /\ ~Started(r)
      /\ scrolls[r] = 0 /\ passes[r] = 0
      /\ uploads = <<>>
      /\ collectedPosts = EmptyMap /\ currentBatch = <<>> /\ cumulativeCount = 0

\* ----------------------------------------------------------------- C17
\* Runs of reddit-scrape/content.js on pages of different paths, with a
\* budget of several cycles and a target of two posts.
NamingParams == [totalTime : {2500}, totalPosts : {2}, batchTime : BatchTimeChoices,
                 batchSize : BatchSizeChoices, scrollBy : {3000}]

InitNaming ==
  /\ variant = "modal"
  /\ inputs = NoInputs
  /\ pathname \in Paths
  /\ FreshPage

NextNaming ==
  \/ ClickModal(FirstRun)
  \/ CancelModal(FirstRun)
  \/ StartModal(FirstRun) /\ params'[FirstRun] \in NamingParams
  \/ Tick
  \/ WaitDone(FirstRun)
  \/ CsvUploaded(FirstRun)
  \/ LoopFlushDone(FirstRun)
  \/ FinalFlushDone(FirstRun)
  \/ UploadFailed(FirstRun)

SpecNaming == InitNaming /\ [][NextNaming]_vars

\* The file name of a request: subreddit_timestamp_count.ext
FileName(q) == [subreddit |-> q.subreddit, timestamp |-> q.timestamp,
                count |-> q.count, ext |-> q.ext]

\* C17: a call of autoUploadBatch on a page of source context c at time t
\* with a batch of n records uploads c_t_n.csv and then c_t_n.json, with the
\* same c, t and n in both names, and each of the two files holds n records.
C17_FileNames ==
  [][\A r \in Runs :
       LET ru == RunUploads(r)'
       IN \A k \in DOMAIN ru :
            /\ ru[k].count = Len(ru[k].posts)
            /\ (k % 2 = 1 /\ k = Len(ru) /\ k > Len(RunUploads(r))) =>
                 /\ FileName(ru[k]) =
                      [subreddit |-> GetSubredditName(pathname),
                       timestamp |-> GetHumanReadableTimestamp(now),
                       count |-> Len(currentBatch'), ext |-> "csv"]
                 /\ ru[k].posts = currentBatch'
            /\ k % 2 = 0 =>
                 /\ FileName(ru[k]) = [FileName(ru[k - 1]) EXCEPT !.ext = "json"]
                 /\ ru[k].posts = ru[k - 1].posts]_vars

\* Two flushes on a page that is not a subreddit page, the second a minute
\* later on the clock than the first, with different record counts.
C17_Witness ==
  /\ pathname = RootPath
  /\ Len(uploads) = 4
  /\ uploads[4].subreddit = "UnknownSubreddit"
  /\ uploads[2].timestamp.minute # uploads[4].timestamp.minute
  /\ uploads[2].count # uploads[4].count
  /\ uploads[4].count >= 1

\* ----------------------------------------------------------------- C18
\* A standard reader of delimited text (RFC 4180): fields are separated by
\* commas and records by line breaks; a field that starts with a quote runs
\* to the next quote that is not doubled, and a doubled quote inside it is
\* one quote. mode is where the reader is: at the start of a field, inside
\* an unquoted or a quoted field, or after the closing quote of a field.
RECURSIVE ReadCsv(_, _, _, _, _)
ReadCsv(rest, mode, field, record, records) ==
  IF rest = <<>>
  THEN IF mode = "start" /\ record = <<>> THEN records
       ELSE Append(records, Append(record, field))
  ELSE LET c == Head(rest)
       IN IF mode = "quoted"
          THEN IF c # Quote
               THEN ReadCsv(Tail(rest), "quoted", Append(field, c), record, records)
               ELSE IF Len(rest) >= 2 /\ rest[2] = Quote
               THEN ReadCsv(Tail(Tail(rest)), "quoted", Append(field, Quote),
                            record, records)
               ELSE ReadCsv(Tail(rest), "closed", field, record, records)
          ELSE IF c = Comma
          THEN ReadCsv(Tail(rest), "start", <<>>, Append(record, field), records)
          ELSE IF c = Newline
          THEN ReadCsv(Tail(rest), "start", <<>>, <<>>,
                       Append(records, Append(record, field)))
          ELSE IF c = Quote /\ mode = "start"
          THEN ReadCsv(Tail(rest), "quoted", <<>>, record, records)
          ELSE ReadCsv(Tail(rest), "unquoted", Append(field, c), record, records)

ParseCsv(text) == ReadCsv(text, "start", <<>>, <<>>, <<>>)

\* The five values of a record that generateCSVFromArray writes.
CsvFields(post) ==
  <<IdText(post.postId), post.title, post.content, post.score, post.comments>>
HeaderFields == <<<<"Post ID">>, <<"Title">>, <<"Content">>, <<"Votes">>, <<"Comments">>>>

\* One extraction pass over a page that shows one post, whose title, body,
\* vote indicator, comment indicator and flair are any of the following.
TitleChoices ==
  {NoText, TextOf(<<"He said ", Quote, "hi", Quote>>),
   TextOf(<<Space, "a", Comma, "b", Newline>>)}
ParagraphChoices == {<<"one">>, <<Space, "two", Quote, Space>>}
ContentChoices ==
  {NoContainer, Container(<<>>)}
    \cup {Container(<<p>>) : p \in ParagraphChoices}
    \cup {Container(<<p, q>>) : p \in ParagraphChoices, q \in ParagraphChoices}
IndicatorChoices ==
  {NoIndicator, Indicator(<<"12">>, <<"12">>),
   Indicator(<<>>, <<Space, "1.2k", Space>>),
   Indicator(<<>>, <<"5", Quote>>)}
FlairChoices == {NoText, TextOf(<<"Vent">>)}
RichBodies ==
  {Body(t, c, sc, cm, fl) : t \in TitleChoices, c \in ContentChoices,
                            sc \in IndicatorChoices, cm \in IndicatorChoices,
                            fl \in FlairChoices}
OnePost == [i \in Ids |-> IF i = 1 THEN "attached" ELSE "absent"]

\* A run of one cycle that flushes what the cycle collected.
ExtractParams == [totalTime : {500}, totalPosts : {1}, batchTime : {0, 2000},
                  batchSize : {0, 1}, scrollBy : {2000, 3000}]

WaitDoneOnPage(r) ==
  /\ pc[r] = "Waiting"
  /\ now >= wakeAt[r]
  /\ \E d \in RichBodies : Cycle(r, OnePost, d)
  /\ UNCHANGED <<variant, inputs, pathname, now>>

NextExtract ==
  \/ ClickModal(FirstRun)
  \/ StartModal(FirstRun) /\ params'[FirstRun] \in ExtractParams
  \/ ClickPrompt(FirstRun) /\ params'[FirstRun] \in ExtractParams
  \/ ClickSimple(FirstRun) /\ params'[FirstRun] \in ExtractParams
  \/ Tick /\ now' <= SettleMs
  \/ WaitDoneOnPage(FirstRun)
  \/ CsvUploaded(FirstRun) /\ StoreAccepts
  \/ LoopFlushDone(FirstRun) /\ StoreAccepts

SpecExtract == Init /\ [][NextExtract]_vars

\* C18: every row written by generateCSVFromArray has the quotes of all its
\* five values doubled and the values wrapped in quotes, so that a standard
\* reader of delimited text gets the five original values back.
C18_CsvRoundTrip ==
  \A i \in DOMAIN uploads :
    uploads[i].ext = "csv" =>
      ParseCsv(uploads[i].content)
        = <<HeaderFields>>
            \o [k \in DOMAIN uploads[i].posts |-> CsvFields(uploads[i].posts[k])]

\* ----------------------------------------------------------------- C19
\* C19: an element with an id and an attached shadow root but without a vote
\* indicator is extracted without error into a record whose score is exactly
\* "Not found", not an empty text; its title, content and comments are what
\* their own elements give.
C19_ScoreSentinel ==
  /\ seenAttached \subseteq DOMAIN collectedPosts
  /\ \A id \in DOMAIN collectedPosts :
       LET src == sourceOf[id]
           rec == collectedPosts[id]
       IN ~src.score.present =>
            /\ rec.score = <<"Not found">>
            /\ rec.title = IF src.title.present THEN Trim(src.title.text)
                           ELSE <<"Not found">>
            /\ src.content.present <=> rec.content # <<"Not found">>
            /\ rec.comments = IF ~src.comments.present THEN <<"Not found">>
                              ELSE IF src.comments.number # <<>>
                              THEN src.comments.number
                              ELSE Trim(src.comments.text)

\* A stored post that had a title, a body and a comment indicator with a
\* text only, but no vote indicator.
C19_Witness ==
  /\ Has(collectedPosts, 1)
  /\ ~sourceOf[1].score.present
  /\ collectedPosts[1].score = <<"Not found">>
  /\ collectedPosts[1].comments = <<"1.2k">>
  /\ sourceOf[1].title.present
  /\ Len(sourceOf[1].content.paragraphs) = 2


\* ----------------------------------------------------------------- C20
\* C20: in every variant the content of a stored record is, when the body
\* container was present, its paragraph texts, each trimmed, with two line
\* breaks between consecutive paragraphs, and "Not found" when the container
\* was absent.
C20_ContentBlankLine ==
  \A id \in DOMAIN collectedPosts :
    LET src == sourceOf[id].content
    IN collectedPosts[id].content =
         IF src.present
         THEN Join([k \in DOMAIN src.paragraphs |-> Trim(src.paragraphs[k])],
                   <<"\n", "\n">>)
         ELSE <<"Not found">>


\* ----------------------------------------------------------------- C21
\* The json request of an in-loop flush of invocation r is fulfilled in this
\* step: both uploads of the flush have then completed.
LoopFlushCompletes(r) ==
  /\ pc[r] = "LoopJson"
  /\ \A i \in DOMAIN uploads :
       uploads[i].run = r => uploads'[i].status \in {"accepted", "refused"}

\* The batch handed to autoUploadBatch by the flush of r that is in flight.
FlushedBatch(r) == RunUploads(r)[Len(RunUploads(r))].posts

\* C21: while an in-loop flush has not completed, the cumulative count, the
\* Active Batch and the batch timer stay as they are and the loop does not
\* go on; in the step in which its second upload completes the count rises
\* by the length of the flushed batch, the Active Batch is emptied, the
\* batch timer is set to the time of that step, and the loop goes on.
C21_FlushStepOrder ==
  [][\A r \in Runs :
       pc[r] \in {"LoopCsv", "LoopJson"} =>
         IF LoopFlushCompletes(r)
         THEN /\ cumulativeCount' = cumulativeCount + Len(FlushedBatch(r))
              /\ currentBatch' = <<>>
              /\ batchStartTime'[r] = now
              /\ pc'[r] \in {"Waiting", "Done"}
         ELSE /\ cumulativeCount' = cumulativeCount
              /\ currentBatch' = currentBatch
              /\ batchStartTime'[r] = batchStartTime[r]
              /\ pc'[r] \in {"LoopCsv", "LoopJson", "Failed", "Rejected"}]_vars

\* An in-loop flush of a non-empty batch has completed a full second after
\* it began, and the loop is running again: the batch timer shows the time
\* of completion, later than the time stamp the flush began with.
C21_Witness ==
  /\ pc[FirstRun] = "Waiting"
  /\ flushLog # <<>>
  /\ uploads # <<>>
  /\ cumulativeCount = Len(uploads[Len(uploads)].posts)
  /\ cumulativeCount >= 1
  /\ currentBatch = <<>>
  /\ batchStartTime[FirstRun] = now
  /\ uploads[Len(uploads)].timestamp # GetHumanReadableTimestamp(now)


\* ----------------------------------------------------------------- C22
\* C22: in every extraction pass, the elements whose record is added are
\* exactly those that have an identifier, whose identifier is not yet in
\* the store and whose shadow root is attached: their records are put in
\* the store and, in the batched scripts, appended to the Active Batch.
\* Every other element (no identifier, identifier already stored, no shadow
\* root) leaves the store and the Active Batch as they are, in particular an
\* element collected in an earlier pass.
C22_SkipConditions ==
  [][\A r \in Runs :
       passes'[r] # passes[r] =>
         LET added == lastAttached' \ DOMAIN collectedPosts
             old == Len(currentBatch)
             new == (old + 1)..Len(currentBatch')
         IN /\ DOMAIN collectedPosts' = DOMAIN collectedPosts \cup added
            /\ \A id \in DOMAIN collectedPosts :
                 collectedPosts'[id] = collectedPosts[id]
            /\ variant = "simple" => currentBatch' = currentBatch
            /\ variant # "simple" =>
                 /\ Len(currentBatch') = old + Cardinality(added)
                 /\ SubSeq(currentBatch', 1, old) = currentBatch
                 /\ {currentBatch'[k].postId : k \in new} = added
                 /\ \A k \in new :
                      currentBatch'[k] = collectedPosts'[currentBatch'[k].postId]]_vars

\* A post collected and flushed in an earlier pass was rendered again, with
\* its shadow root and with other content, in the latest pass, next to a post
\* that has never had a shadow root: neither was added.
C22_Witness ==
  /\ variant # "simple"
  /\ passes[FirstRun] >= 2
  /\ lastAttached # {}
  /\ lastAttached = DOMAIN collectedPosts
  /\ resighted
  /\ seenIds # seenAttached
  /\ cumulativeCount = Size(collectedPosts)
  /\ currentBatch = <<>>


\* ----------------------------------------------------------------- C23
\* C23: in a run of a batched script started on a freshly loaded page, at
\* every point between two synchronous stretches (before, during and after
\* each flush) the size of the store is the cumulative count plus the
\* length of the Active Batch.
C23_Accounting ==
  Batched => Size(collectedPosts) = cumulativeCount + Len(currentBatch)


\* ----------------------------------------------------------------- C24
\* The collect button is clicked again once the first run is Done: the
\* second invocation starts on the module-level state the first one left.
ClickAgain ==
  /\ pc[FirstRun] = "Done"
  /\ ClickModal(SecondRun) \/ (ClickPrompt(SecondRun) /\ OverlapInput(SecondRun))

NextRerun ==
  \/ ClickModal(FirstRun)
  \/ CancelModal(FirstRun)
  \/ StartModal(FirstRun) /\ OverlapInput(FirstRun)
  \/ ClickPrompt(FirstRun) /\ OverlapInput(FirstRun)
  \/ ClickAgain
  \/ CancelModal(SecondRun)
  \/ StartModal(SecondRun) /\ OverlapInput(SecondRun)
  \/ Tick
  \/ \E r \in {FirstRun, SecondRun} :
       \/ WaitDone(r)
       \/ CsvUploaded(r) /\ StoreAccepts
       \/ LoopFlushDone(r) /\ StoreAccepts
       \/ FinalFlushDone(r) /\ StoreAccepts

SpecRerun == InitBatched /\ [][NextRerun]_vars

\* The post ids in the batches handed to autoUploadBatch by invocation r.
UploadedIds(r) ==
  {id \in Ids : \E i \in DOMAIN Flushed :
     /\ Flushed[i].run = r
     /\ \E k \in DOMAIN Flushed[i].posts : Flushed[i].posts[k].postId = id}

\* C24: a second run started after the first one is Done hands no post to
\* autoUploadBatch that the first run handed to it, and the cumulative
\* count never exceeds the number of posts collected.
C24_RerunSafe ==
  /\ UploadedIds(FirstRun) \cap UploadedIds(SecondRun) = {}
  /\ cumulativeCount <= Size(collectedPosts)


\* ----------------------------------------------------------------- C25
\* The calls of autoUploadBatch whose batch contains the post id.
FlushesOf(id) ==
  {i \in DOMAIN Flushed :
     \E k \in DOMAIN Flushed[i].posts : Flushed[i].posts[k].postId = id}

\* C25: when two invocations interleave on the shared store and batch, no
\* post is handed to autoUploadBatch twice, the cumulative count never
\* exceeds the number of posts handed to it, and once no invocation is
\* active any more every stored post was uploaded in exactly one batch and
\* the cumulative count is the size of the store.
C25_OverlapKeepsAccounts ==
  /\ \A id \in Ids : Cardinality(FlushesOf(id)) <= 1
  /\ cumulativeCount <= Cardinality({id \in Ids : FlushesOf(id) # {}})
  /\ (\A r \in Runs : pc[r] \in {"Idle", "Done"}) =>
       /\ \A id \in DOMAIN collectedPosts : Cardinality(FlushesOf(id)) = 1
       /\ cumulativeCount = Size(collectedPosts)


\* ----------------------------------------------------------------- C26
\* C26: no request writes a file of zero records: every batch handed to
\* autoUploadBatch, by the flush in the loop and by the final flush, holds
\* at least one record.
C26_NoEmptyUpload ==
  \A i \in DOMAIN uploads : uploads[i].count > 0 /\ uploads[i].posts # <<>>


\* ----------------------------------------------------------------- C27
\* C27: when a run of a batched script is Done the cumulative count is at
\* most the target total post count, and every batch flushed inside the
\* loop is at most as long as the batch-size threshold.
C27_TargetIsUpperBound ==
  \A r \in Runs :
    (Batched /\ Started(r)) =>
      /\ pc[r] = "Done" => cumulativeCount <= params[r].totalPosts
      /\ \A i \in DOMAIN Flushed :
           (Flushed[i].run = r /\ Flushed[i].site = "loop")
             => Len(Flushed[i].posts) <= params[r].batchSize


\* ----------------------------------------------------------------- C28
\* A feed whose posts are all in the document from the first pass on, each
\* with or without its shadow root at the time of a pass.
AllRendered == seenIds' = Ids

NextLate ==
  \/ ClickModal(FirstRun)
  \/ CancelModal(FirstRun)
  \/ StartModal(FirstRun)
  \/ ClickPrompt(FirstRun)
  \/ ClickSimple(FirstRun)
  \/ Tick
  \/ WaitDone(FirstRun) /\ AllRendered
  \/ CsvUploaded(FirstRun)
  \/ LoopFlushDone(FirstRun)
  \/ FinalFlushDone(FirstRun)
  \/ UploadFailed(FirstRun)

SpecLate == Init /\ [][NextLate]_vars

\* C28: a post that has been given to extractPostData only without a shadow
\* root is not in the store; in the pass in which it is first given with a
\* shadow root it is put in the store and, in the batched scripts, appended
\* to the Active Batch.
C28_LateRenderedCollected ==
  [][/\ \A id \in seenIds' \ seenAttached' : id \notin DOMAIN collectedPosts'
     /\ \A r \in Runs :
          passes'[r] # passes[r] =>
            \A id \in (seenIds \ seenAttached) \cap lastAttached' :
              /\ id \in DOMAIN collectedPosts'
              /\ variant # "simple" =>
                   \E k \in (Len(currentBatch) + 1)..Len(currentBatch') :
                     currentBatch'[k].postId = id]_vars

\* The first pass found every post without its shadow root and stored
\* nothing; the latest pass found one of them with its shadow root, and it
\* is the last record of the Active Batch.
C28_Witness ==
  /\ variant # "simple"
  /\ passes[FirstRun] >= 2
  /\ seenIds = Ids
  /\ firstPass[FirstRun] = 0
  /\ lastAttached # {}
  /\ currentBatch # <<>>
  /\ currentBatch[Len(currentBatch)].postId \in lastAttached
  /\ seenIds # seenAttached


\* ----------------------------------------------------------------- C29
\* A run of collectPosts with a budget of twenty minutes and a target of 100
\* posts on a feed that has shown no post so far, observed from the scroll of
\* its cycle number MaxAttempts on: the clock is read relative to that
\* moment, so the run began (MaxAttempts - 1) settle intervals before.
LongRun ==
  /\ variant = "simple"
  /\ inputs = NoInputs
  /\ pathname = SubredditPath
  /\ now = 0
  /\ collectedPosts = EmptyMap
  /\ currentBatch = <<>>
  /\ cumulativeCount = 0
  /\ uploads = <<>>
  /\ displayed = <<>>
  /\ pc = [r \in Runs |-> IF r = FirstRun THEN "Waiting" ELSE "Idle"]
  /\ params = [r \in Runs |->
                 IF r = FirstRun
                 THEN [totalTime |-> 20 * 60000, totalPosts |-> 100,
                       batchTime |-> 0, batchSize |-> 0, scrollBy |-> 2000]
                 ELSE NoParams]
  /\ overallStartTime = [r \in Runs |->
                           IF r = FirstRun THEN 0 - (MaxAttempts - 1) * SettleMs
                           ELSE 0]
  /\ batchStartTime = [r \in Runs |-> 0]
  /\ wakeAt = [r \in Runs |-> IF r = FirstRun THEN SettleMs ELSE 0]
  /\ batchPosts = [r \in Runs |-> <<>>]
  /\ attempts = [r \in Runs |-> IF r = FirstRun THEN MaxAttempts - 1 ELSE 0]
  /\ scrolls = [r \in Runs |-> IF r = FirstRun THEN MaxAttempts ELSE 0]
  /\ passes = [r \in Runs |-> IF r = FirstRun THEN MaxAttempts - 1 ELSE 0]
  /\ seenIds = {}
  /\ seenAttached = {}
  /\ firstPass = [r \in Runs |-> 0]
  /\ resighted = FALSE
  /\ flushLog = <<>>
  /\ sourceOf = EmptyMap
  /\ lastAttached = {}

InitLive == Init \/ LongRun

\* The clock goes on while an invocation is suspended, a wait that is over
\* resumes the loop, and every request in flight settles (is fulfilled, or
\* fails).
Fairness ==
  /\ WF_vars(Tick)
  /\ WF_vars(WaitDone(FirstRun))
  /\ WF_vars(\/ CsvUploaded(FirstRun)
             \/ LoopFlushDone(FirstRun)
             \/ FinalFlushDone(FirstRun)
             \/ UploadFailed(FirstRun))

SpecLive == InitLive /\ [][Next]_vars /\ Fairness

\* The invocation has left the loop for good: finished, or failed.
Ended(r) == pc[r] \in {"Done", "Failed", "Rejected"}

\* C29: every run that has started ends, Done or with the error outcome,
\* whatever the feed shows; a run of collectPosts issues at most
\* MaxAttempts scrolls and runs at most MaxAttempts extraction passes.
C29_Termination ==
  /\ \A r \in {FirstRun} : Active(r) ~> Ended(r)
  /\ [](variant = "simple" =>
          \A r \in Runs : scrolls[r] <= MaxAttempts /\ passes[r] <= MaxAttempts)

\* A batched run is Done after several cycles in which the feed showed
\* nothing to collect, its target not reached.
C29_Witness ==
  /\ variant # "simple"
  /\ pc[FirstRun] = "Done"
  /\ passes[FirstRun] >= 2
  /\ collectedPosts = EmptyMap
  /\ params[FirstRun].totalPosts >= 1

\* A run of collectPosts is Done after its cycle number MaxAttempts, with
\* neither its target nor its time budget reached.
C29_WitnessAttempts ==
  /\ variant = "simple"
  /\ pc[FirstRun] = "Done"
  /\ attempts[FirstRun] = MaxAttempts
  /\ passes[FirstRun] = MaxAttempts
  /\ Size(collectedPosts) < params[FirstRun].totalPosts
  /\ now - overallStartTime[FirstRun] < params[FirstRun].totalTime


\* ----------------------------------------------------------------- C30
\* A request of invocation r that was in flight settles in this step with
\* one of the given statuses.
Settles(r, statuses) ==
  \E i \in DOMAIN uploads :
    /\ uploads[i].run = r
    /\ uploads[i].status = "pending"
    /\ uploads'[i].status \in statuses

\* C30: the cumulative count changes only in a step after which the csv and
\* the json request of the flush have both been accepted by the remote
\* store; a step in which a request fails at the network level or is
\* answered with an error status leaves the count and the Active Batch as
\* they are.
C30_CountOnlyPersisted ==
  [][\A r \in Runs :
       /\ Settles(r, {"failed", "refused"}) =>
            /\ cumulativeCount' = cumulativeCount
            /\ currentBatch' = currentBatch
       /\ (Settles(r, {"accepted", "failed", "refused"})
             /\ cumulativeCount' # cumulativeCount) =>
            LET ru == SelectSeq(uploads', LAMBDA q : q.run = r)
            IN /\ Len(ru) >= 2
               /\ ru[Len(ru) - 1].status = "accepted"
               /\ ru[Len(ru)].status = "accepted"]_vars

====
